---- MODULE Spec2Model ----
(***************************************************************************)
(* A model of HnCalculator (src/HnCalculator.cpp): the shared cursor       *)
(* (getNextNumber), the cache (isCached / newResult), the recursive        *)
(* classification isHappy, the worker loop threadLoop and startThreads.    *)
(*                                                                         *)
(* Thread 0 is the thread that constructed the calculator (main); threads  *)
(* 1..MaxThreads are the detached threads startThreads creates.  A thread  *)
(* takes one step at a time; a step is one lock operation together with    *)
(* the thread-local code that follows it.                                  *)
(*                                                                         *)
(* std::uint64_t is modelled as a Width-bit unsigned integer.              *)
(* newResult's console line (outputResults) changes no state of the        *)
(* calculator and is left out; the milestone lines are kept in milestones. *)
(***************************************************************************)
EXTENDS Integers, Sequences, FiniteSets, TLC

VARIABLES
    cacheResults,      \* const bool cacheResults
    skipPermutations,  \* const bool skipPermutations
    base,              \* const char base
    stopAt,            \* std::uint64_t stopAt
    milestoneInc,      \* std::optional<uint64_t>: {} (nullopt) or {m}
    cache,             \* std::unordered_map<uint64_t,bool>, a function
    nextNumber,        \* std::uint64_t nextNumber
    lastMilestone,     \* std::uint64_t lastMilestone
    cacheLock,         \* std::mutex cacheLock: the set of its holders
    nextNumberLock,    \* std::mutex nextNumberLock: the set of its holders
    numThreads,        \* startThreads' argument numThreads
    attachToLast,      \* startThreads' argument attachToLast
    spawned,           \* startThreads' loop counter i
    pc,                \* each thread's position
    n,                 \* threadLoop's local n, per thread
    stack,             \* per thread: the arguments of its active isHappy calls
    happy,             \* per thread: the value the last isHappy call returned
    resume,            \* per thread: where its outermost isHappy call returns to
    dirty,             \* how many more sortDigits calls get non-zero memory
    callsLeft,         \* how many more direct isHappy calls main makes
    crashed,           \* the process died (stack overflow, racing read)
    tainted,           \* history: a stale byte or a racing read has been used
    handed,            \* history: the numbers getNextNumber returned, in lock order
    milestones,        \* history: the milestone values announced, in order
    rets               \* history: <<m, v>> for every isHappy(m) that returned v

vars == <<cacheResults, skipPermutations, base, stopAt, milestoneInc, cache,
          nextNumber, lastMilestone, cacheLock, nextNumberLock, numThreads,
          attachToLast, spawned, pc, n, stack, happy, resume, dirty, callsLeft,
          crashed, tainted, handed, milestones, rets>>

(* ------------------------------ bounds -------------------------------- *)

\* bits of an unsigned integer (64 in the source)
Width == 9
\* detached threads at most
MaxThreads == 2
\* largest stopAt of the pool configurations
MaxStop == 4
\* largest stopAt of the dirty-memory configurations
MaxStopD == 13
\* the first bytes of sortDigits' array that may be non-zero
MaxDirtyDigit == 1
\* largest stopAt of the milestone configurations
MaxStopM == 24
\* largest milestone interval
MaxInc == 3
\* sortDigits calls that find non-zero bytes in their fresh array
MaxDirty == 1
\* direct calls of isHappy by main
MaxCalls == 2
\* largest argument of a direct call
MaxArg == 31
\* isHappy frames a thread's stack holds before it overflows
MaxDepth == 34
\* largest base of the configurations with another base than 10
MaxBase == 5
\* largest stopAt of these configurations
MaxStopB == 5

MaxNum == 2^Width - 1
Wrap(x) == x % (MaxNum + 1)

Threads == 0..MaxThreads
\* happy[t] before any isHappy call of t has returned (it is not read then)
NoValue == FALSE

(* ----------------------------- DigitMath ------------------------------ *)

RECURSIVE sumOfDigitSquares(_, _)
sumOfDigitSquares(m, b) ==
    IF m = 0 THEN 0
    ELSE Wrap((m % b) * (m % b) + sumOfDigitSquares(m \div b, b))

RECURSIVE SortedFrom(_, _, _)
SortedFrom(m, prevDigit, b) ==
    IF m = 0 THEN TRUE
    ELSE IF m % b > prevDigit THEN FALSE
    ELSE SortedFrom(m \div b, m % b, b)

areDigitsSorted(m, b) == SortedFrom(m, b, b)

\* new char[base]: the array's bytes before sortDigits writes any of them.
\* The array is not initialized: freshly mapped memory is zero, recycled
\* memory is not.  A dirty array has one stale byte, among its first
\* MaxDirtyDigit bytes.
ZeroBytes(b) == [d \in 1..(b - 1) |-> 0]
DirtyVals == {-1, 1}
DirtyBytes(b) ==
    {[ZeroBytes(b) EXCEPT ![d] = v] :
        d \in {x \in 1..(b - 1) : x <= MaxDirtyDigit}, v \in DirtyVals}

\* the first loop of sortDigits: digits[n%base-1]++ for every non-zero digit
RECURSIVE CountDigits(_, _, _)
CountDigits(m, digits, b) ==
    IF m = 0 THEN digits
    ELSE IF m % b # 0
         THEN CountDigits(m \div b, [digits EXCEPT ![m % b] = @ + 1], b)
         ELSE CountDigits(m \div b, digits, b)

\* the second loop of sortDigits: each digit, digits[digit-1] times
RECURSIVE EmitDigits(_, _, _, _, _)
EmitDigits(result, digit, i, digits, b) ==
    IF digit >= b THEN result
    ELSE IF i < digits[digit]
         THEN EmitDigits(Wrap(result * b + digit), digit, i + 1, digits, b)
         ELSE EmitDigits(result, digit + 1, 0, digits, b)

sortDigits(m, bytes, b) == EmitDigits(0, 1, 0, CountDigits(m, bytes, b), b)

(* ------------------------- ClassificationCache ------------------------ *)

\* the constructor's cache[1] = true; cache[4] = false
SeedCache == (1 :> TRUE) @@ (4 :> FALSE)

\* (a mutant: the record overwrites the value of a key that is present)
EmplaceOverwrite(c, m, v) == (m :> v) @@ c

\* cache.emplace(n, happy): inserts only when the key is absent
Emplace(c, m, v) == IF m \in DOMAIN c THEN c ELSE (m :> v) @@ c

(* -------------------------------- Cursor ------------------------------ *)

\* the for loop of getNextNumber: the first i from `from` on, i++ wrapping,
\* that is not skipped
RECURSIVE FirstFrom(_, _, _)
FirstFrom(i, skip, b) ==
    IF ~skip \/ areDigitsSorted(i, b) THEN i
    ELSE FirstFrom(Wrap(i + 1), skip, b)

\* the milestone test with >= for >: the boundary itself announces it
MilestoneDueAt(i, last, inc) ==
    \E m \in inc : i >= Wrap(last + m)

\* milestoneInc && i > lastMilestone + milestoneInc.value()
MilestoneDue(i, last, inc) ==
    \E m \in inc : i > Wrap(last + m)

(* --------------------------- configurations --------------------------- *)

Base10 == 10

Config(cr, sp, stop, inc, k, a, d, calls) ==
    [cr |-> cr, sp |-> sp, b |-> Base10, stop |-> stop, inc |-> inc,
     k |-> k, a |-> a, dirty |-> d, calls |-> calls]

\* the worker pool on a short range, sortDigits' memory fresh
PoolConfigs ==
    {Config(cr, sp, stop, {}, k, a, 0, 0) :
        cr \in BOOLEAN, sp \in BOOLEAN, stop \in 0..MaxStop,
        k \in 0..MaxThreads, a \in BOOLEAN}

\* one worker skipping permutations, sortDigits' memory possibly dirty
DirtyConfigs ==
    {Config(cr, TRUE, stop, {}, 1, a, MaxDirty, 0) :
        cr \in BOOLEAN, stop \in 0..MaxStopD, a \in BOOLEAN}

\* one worker with a milestone interval
MilestoneConfigs ==
    {Config(TRUE, sp, stop, {m}, 1, a, 0, 0) :
        sp \in BOOLEAN, stop \in 0..MaxStopM, m \in 1..MaxInc, a \in BOOLEAN}

\* one worker with stopAt at the largest representable value (the default)
\* or next to it, with no milestones or with an interval of half the range
WrapConfigs ==
    {Config(TRUE, sp, stop, inc, 1, FALSE, 0, 0) :
        sp \in BOOLEAN, stop \in {MaxNum - 1, MaxNum},
        inc \in {{}, {2^(Width - 1)}}}

\* main calls isHappy itself and starts no worker
CallConfigs ==
    {Config(cr, sp, 0, {}, 0, FALSE, MaxDirty, MaxCalls) :
        cr \in BOOLEAN, sp \in BOOLEAN}

\* one worker on the calling thread, in a base from 2 on
BaseConfigs ==
    {[Config(cr, sp, stop, {}, 1, TRUE, 0, 0) EXCEPT !.b = b] :
        cr \in BOOLEAN, sp \in BOOLEAN, stop \in 0..MaxStopB,
        b \in 2..MaxBase}

Configs ==
    PoolConfigs \cup DirtyConfigs \cup MilestoneConfigs \cup WrapConfigs
        \cup CallConfigs \cup BaseConfigs

\* the state after construction and after main has set the tunable fields
InitWith(c) ==
    /\ cacheResults = c.cr
    /\ skipPermutations = c.sp
    /\ base = c.b
    /\ stopAt = c.stop
    /\ milestoneInc = c.inc
    /\ cache = IF c.cr THEN SeedCache ELSE <<>>
    /\ nextNumber = 1
    /\ lastMilestone = 0
    /\ cacheLock = {}
    /\ nextNumberLock = {}
    /\ numThreads = c.k
    /\ attachToLast = c.a
    /\ spawned = 0
    /\ pc = [t \in Threads |-> IF t = 0 THEN "main" ELSE "unborn"]
    /\ n = [t \in Threads |-> 0]
    /\ stack = [t \in Threads |-> <<>>]
    /\ happy = [t \in Threads |-> NoValue]
    /\ resume = [t \in Threads |-> "loop"]
    /\ dirty = c.dirty
    /\ callsLeft = c.calls
    /\ crashed = FALSE
    /\ tainted = FALSE
    /\ handed = <<>>
    /\ milestones = <<>>
    /\ rets = {}

Init == \E c \in Configs : InitWith(c)

(* ------------------------------ helpers ------------------------------- *)

Top(t) == stack[t][Len(stack[t])]
Pop(s) == SubSeq(s, 1, Len(s) - 1)
BoolToInt(x) == IF x THEN 1 ELSE 0

config == <<cacheResults, skipPermutations, base, stopAt, milestoneInc,
            numThreads, attachToLast>>
cursor == <<nextNumber, lastMilestone, nextNumberLock, handed, milestones>>

\* isHappy(Top(t)) returns v to its caller: the isHappy frame below it, or
\* the code that made the outermost call
Return(t, v) ==
    /\ rets' = rets \cup {<<Top(t), v>>}
    /\ happy' = [happy EXCEPT ![t] = v]
    /\ stack' = [stack EXCEPT ![t] = Pop(@)]
    /\ pc' = [pc EXCEPT ![t] = IF Len(stack[t]) = 1 THEN resume[t] ELSE "ret"]

(* ---------------------------- startThreads ---------------------------- *)

\* main calls startThreads(numThreads, attachToLast)
StartThreads ==
    /\ ~crashed
    /\ pc[0] = "main"
    /\ pc' = [pc EXCEPT ![0] = "spawn"]
    /\ spawned' = 0
    /\ UNCHANGED <<config, cursor, cache, cacheLock, n, stack, happy, resume,
                   dirty, callsLeft, crashed, rets, tainted>>

\* one iteration of its for loop: std::thread(threadLoop).detach()
SpawnThread ==
    /\ ~crashed
    /\ pc[0] = "spawn"
    /\ spawned < numThreads - BoolToInt(attachToLast)
    /\ pc' = [pc EXCEPT ![spawned + 1] = "loop"]
    /\ n' = [n EXCEPT ![spawned + 1] = 0]
    /\ spawned' = spawned + 1
    /\ UNCHANGED <<config, cursor, cache, cacheLock, stack, happy, resume,
                   dirty, callsLeft, crashed, rets, tainted>>

\* (a mutant: the last worker is detached too, and startThreads returns)
AttachLastDetached ==
    /\ ~crashed
    /\ pc[0] = "spawn"
    /\ ~(spawned < numThreads - BoolToInt(attachToLast))
    /\ attachToLast
    /\ pc' = [pc EXCEPT ![0] = "returned", ![spawned + 1] = "loop"]
    /\ n' = [n EXCEPT ![spawned + 1] = 0]
    /\ UNCHANGED <<config, cursor, cache, cacheLock, spawned, stack, happy,
                   resume, dirty, callsLeft, crashed, rets, tainted>>

\* the loop is over and attachToLast: main runs threadLoop itself
AttachLast ==
    /\ ~crashed
    /\ pc[0] = "spawn"
    /\ ~(spawned < numThreads - BoolToInt(attachToLast))
    /\ attachToLast
    /\ pc' = [pc EXCEPT ![0] = "loop"]
    /\ n' = [n EXCEPT ![0] = 0]
    /\ UNCHANGED <<config, cursor, cache, cacheLock, spawned, stack, happy,
                   resume, dirty, callsLeft, crashed, rets, tainted>>

\* the loop is over and not attachToLast: startThreads returns
StartReturn ==
    /\ ~crashed
    /\ pc[0] = "spawn"
    /\ ~(spawned < numThreads - BoolToInt(attachToLast))
    /\ ~attachToLast
    /\ pc' = [pc EXCEPT ![0] = "returned"]
    /\ UNCHANGED <<config, cursor, cache, cacheLock, spawned, n, stack, happy,
                   resume, dirty, callsLeft, crashed, rets, tainted>>

\* main calls the public isHappy(m) itself
CallIsHappy(m) ==
    /\ ~crashed
    /\ pc[0] \in {"main", "returned"}
    /\ callsLeft > 0
    /\ callsLeft' = callsLeft - 1
    /\ stack' = [stack EXCEPT ![0] = <<m>>]
    /\ resume' = [resume EXCEPT ![0] = pc[0]]
    /\ pc' = [pc EXCEPT ![0] = "isCached"]
    /\ UNCHANGED <<config, cursor, cache, cacheLock, spawned, n, happy, dirty,
                   crashed, rets, tainted>>

(* ----------------------------- threadLoop ----------------------------- *)

\* the loop test with <= for <: a worker goes on after pulling stopAt itself
LoopTestInclusive(t) ==
    /\ ~crashed
    /\ pc[t] = "loop"
    /\ pc' = [pc EXCEPT ![t] = IF n[t] <= stopAt THEN "gnn"
                                ELSE IF t = 0 THEN "returned" ELSE "done"]
    /\ UNCHANGED <<config, cursor, cache, cacheLock, spawned, n, stack, happy,
                   resume, dirty, callsLeft, crashed, rets, tainted>>

\* while (n < stopAt); when the loop ends a detached thread ends, and main
\* returns from startThreads
LoopTest(t) ==
    /\ ~crashed
    /\ pc[t] = "loop"
    /\ pc' = [pc EXCEPT ![t] = IF n[t] < stopAt THEN "gnn"
                                ELSE IF t = 0 THEN "returned" ELSE "done"]
    /\ UNCHANGED <<config, cursor, cache, cacheLock, spawned, n, stack, happy,
                   resume, dirty, callsLeft, crashed, rets, tainted>>

(* ---------------------------- getNextNumber --------------------------- *)

\* nextNumberLock.lock()
GetNextLock(t) ==
    /\ ~crashed
    /\ pc[t] = "gnn"
    /\ nextNumberLock = {}
    /\ nextNumberLock' = {t}
    /\ pc' = [pc EXCEPT ![t] = "scan"]
    /\ UNCHANGED <<config, nextNumber, lastMilestone, handed, milestones, cache,
                   cacheLock, spawned, n, stack, happy, resume, dirty,
                   callsLeft, crashed, rets, tainted>>

\* the scan, the milestone, nextNumber = i+1, unlock, return i; then
\* threadLoop's n = i and its call isHappy(n)
GetNextScan(t) ==
    /\ ~crashed
    /\ pc[t] = "scan"
    /\ LET i == FirstFrom(nextNumber, skipPermutations, base)
           due == MilestoneDue(i, lastMilestone, milestoneInc)
           last == IF due
                   THEN Wrap(lastMilestone + (CHOOSE m \in milestoneInc : TRUE))
                   ELSE lastMilestone
       IN /\ lastMilestone' = last
          /\ milestones' = IF due THEN Append(milestones, last) ELSE milestones
          /\ nextNumber' = Wrap(i + 1)
          /\ handed' = Append(handed, i)
          /\ n' = [n EXCEPT ![t] = i]
          /\ stack' = [stack EXCEPT ![t] = <<i>>]
    /\ nextNumberLock' = {}
    /\ resume' = [resume EXCEPT ![t] = "loop"]
    /\ pc' = [pc EXCEPT ![t] = "isCached"]
    /\ UNCHANGED <<config, cache, cacheLock, spawned, happy, dirty, callsLeft,
                   crashed, rets, tainted>>

(* ------------------------------ isCached ------------------------------ *)

\* if (!cacheResults) return false
IsCachedOff(t) ==
    /\ ~crashed
    /\ pc[t] = "isCached"
    /\ ~cacheResults
    /\ pc' = [pc EXCEPT ![t] = "miss"]
    /\ UNCHANGED <<config, cursor, cache, cacheLock, spawned, n, stack, happy,
                   resume, dirty, callsLeft, crashed, rets, tainted>>

\* cacheLock.lock()
IsCachedLock(t) ==
    /\ ~crashed
    /\ pc[t] = "isCached"
    /\ cacheResults
    /\ cacheLock = {}
    /\ cacheLock' = {t}
    /\ pc' = [pc EXCEPT ![t] = "find"]
    /\ UNCHANGED <<config, cursor, cache, spawned, n, stack, happy, resume,
                   dirty, callsLeft, crashed, rets, tainted>>

\* cached = cache.find(n) != cache.end(); cacheLock.unlock(); return cached
IsCachedFind(t) ==
    /\ ~crashed
    /\ pc[t] = "find"
    /\ cacheLock' = {}
    /\ pc' = [pc EXCEPT ![t] = IF Top(t) \in DOMAIN cache THEN "read" ELSE "miss"]
    /\ UNCHANGED <<config, cursor, cache, spawned, n, stack, happy, resume,
                   dirty, callsLeft, crashed, rets, tainted>>

(* ------------------------------- isHappy ------------------------------ *)

\* another thread is inside newResult's critical section, writing the map
WriterInside(t) == \E u \in Threads \ {t} : pc[u] = "emplace"

\* return cache[n]: read without the lock, while no thread writes the map
ReadCache(t) ==
    /\ ~crashed
    /\ pc[t] = "read"
    /\ ~WriterInside(t)
    /\ Return(t, cache[Top(t)])
    /\ UNCHANGED <<config, cursor, cache, cacheLock, spawned, n, resume, dirty,
                   callsLeft, crashed, tainted>>

\* return cache[n]: read without the lock while another thread writes the
\* map, a data race: the value read is any value
ReadCacheRace(t) ==
    /\ ~crashed
    /\ pc[t] = "read"
    /\ WriterInside(t)
    /\ \E v \in BOOLEAN : Return(t, v)
    /\ tainted' = TRUE
    /\ UNCHANGED <<config, cursor, cache, cacheLock, spawned, n, resume, dirty,
                   callsLeft, crashed>>

\* return cache[n]: the same data race, when the read walks buckets the
\* writer is relinking: the process dies
ReadCacheCrash(t) ==
    /\ ~crashed
    /\ pc[t] = "read"
    /\ WriterInside(t)
    /\ crashed' = TRUE
    /\ tainted' = TRUE
    /\ UNCHANGED <<config, cursor, cache, cacheLock, spawned, pc, n, stack,
                   happy, resume, dirty, callsLeft, rets>>

\* else if (n == 1) return true; else if (n == 4) return false
ReturnTerminal(t) ==
    /\ ~crashed
    /\ pc[t] = "miss"
    /\ Top(t) \in {1, 4}
    /\ Return(t, Top(t) = 1)
    /\ UNCHANGED <<config, cursor, cache, cacheLock, spawned, n, resume, dirty,
                   callsLeft, crashed, tainted>>

\* childNumber as isHappy computes it, sortDigits finding `bytes` in its array
ChildNumber(m, bytes) ==
    IF skipPermutations
    THEN sortDigits(sumOfDigitSquares(m, base), bytes, base)
    ELSE sumOfDigitSquares(m, base)

\* the recursive call isHappy(childNumber)
Call(t, child) ==
    /\ Len(stack[t]) < MaxDepth
    /\ stack' = [stack EXCEPT ![t] = Append(@, child)]
    /\ pc' = [pc EXCEPT ![t] = "isCached"]

\* childNumber computed and isHappy called on it; sortDigits' array is zero
Descend(t) ==
    /\ ~crashed
    /\ pc[t] = "miss"
    /\ Top(t) \notin {1, 4}
    /\ Call(t, ChildNumber(Top(t), ZeroBytes(base)))
    /\ UNCHANGED <<config, cursor, cache, cacheLock, spawned, n, happy, resume,
                   dirty, callsLeft, crashed, rets, tainted>>

\* the same, sortDigits reading non-zero bytes from its uninitialized array
DescendDirty(t) ==
    /\ ~crashed
    /\ pc[t] = "miss"
    /\ Top(t) \notin {1, 4}
    /\ skipPermutations
    /\ dirty > 0
    /\ dirty' = dirty - 1
    /\ \E bytes \in DirtyBytes(base) : Call(t, ChildNumber(Top(t), bytes))
    /\ tainted' = TRUE
    /\ UNCHANGED <<config, cursor, cache, cacheLock, spawned, n, happy, resume,
                   callsLeft, crashed, rets>>

\* the recursion has used up the thread's stack: the process dies
StackOverflow(t) ==
    /\ ~crashed
    /\ pc[t] = "miss"
    /\ Top(t) \notin {1, 4}
    /\ Len(stack[t]) >= MaxDepth
    /\ crashed' = TRUE
    /\ UNCHANGED <<config, cursor, cache, cacheLock, spawned, pc, n, stack,
                   happy, resume, dirty, callsLeft, rets, tainted>>

(* ------------------------------ newResult ----------------------------- *)

\* newResult(n, happy) with caching off, and isHappy's return happy
NewResultOff(t) ==
    /\ ~crashed
    /\ pc[t] = "ret"
    /\ ~cacheResults
    /\ Return(t, happy[t])
    /\ UNCHANGED <<config, cursor, cache, cacheLock, spawned, n, resume, dirty,
                   callsLeft, crashed, tainted>>

\* cacheLock.lock()
NewResultLock(t) ==
    /\ ~crashed
    /\ pc[t] = "ret"
    /\ cacheResults
    /\ cacheLock = {}
    /\ cacheLock' = {t}
    /\ pc' = [pc EXCEPT ![t] = "emplace"]
    /\ UNCHANGED <<config, cursor, cache, spawned, n, stack, happy, resume,
                   dirty, callsLeft, crashed, rets, tainted>>

\* cache.emplace(n, happy); cacheLock.unlock(); and isHappy's return happy
NewResultEmplace(t) ==
    /\ ~crashed
    /\ pc[t] = "emplace"
    /\ cache' = Emplace(cache, Top(t), happy[t])
    /\ cacheLock' = {}
    /\ Return(t, happy[t])
    /\ UNCHANGED <<config, cursor, spawned, n, resume, dirty, callsLeft,
                   crashed, tainted>>

(* --------------------------- specification ---------------------------- *)

Next ==
    \/ StartThreads
    \/ SpawnThread
    \/ AttachLast
    \/ StartReturn
    \/ \E m \in 1..MaxArg : CallIsHappy(m)
    \/ \E t \in Threads :
         \/ LoopTest(t)
         \/ GetNextLock(t)
         \/ GetNextScan(t)
         \/ IsCachedOff(t)
         \/ IsCachedLock(t)
         \/ IsCachedFind(t)
         \/ ReadCache(t)
         \/ ReadCacheRace(t)
         \/ ReadCacheCrash(t)
         \/ ReturnTerminal(t)
         \/ Descend(t)
         \/ DescendDirty(t)
         \/ StackOverflow(t)
         \/ NewResultOff(t)
         \/ NewResultLock(t)
         \/ NewResultEmplace(t)

Spec == Init /\ [][Next]_vars

(* ------------------------------ scheduling ---------------------------- *)

\* the steps of startThreads, which main takes once it has called it
MainStep == StartThreads \/ SpawnThread \/ AttachLast \/ StartReturn

\* the steps of thread t inside threadLoop and isHappy
ThreadStep(t) ==
    \/ LoopTest(t)
    \/ GetNextLock(t)
    \/ GetNextScan(t)
    \/ IsCachedOff(t)
    \/ IsCachedLock(t)
    \/ IsCachedFind(t)
    \/ ReadCache(t)
    \/ ReadCacheRace(t)
    \/ ReadCacheCrash(t)
    \/ ReturnTerminal(t)
    \/ Descend(t)
    \/ DescendDirty(t)
    \/ StackOverflow(t)
    \/ NewResultOff(t)
    \/ NewResultLock(t)
    \/ NewResultEmplace(t)

\* every thread that can take a step takes one in the end: the scheduler
\* starves no runnable thread (a thread that waits for a mutex is not
\* runnable while another thread holds it)
\* the configurations of the fair runs: those of Init, main calling
\* isHappy itself once at most
LiveConfigs ==
    (Configs \ CallConfigs) \cup
        {Config(cr, sp, 0, {}, 0, FALSE, MaxDirty, 1) :
            cr \in BOOLEAN, sp \in BOOLEAN}

LiveInit == \E c \in LiveConfigs : InitWith(c)

FairSpec ==
    /\ LiveInit
    /\ [][Next]_vars
    /\ WF_vars(MainStep)
    /\ \A t \in Threads : WF_vars(ThreadStep(t))

(* ====================================================================== *)
(* Properties                                                             *)
(* ====================================================================== *)

(* ----------------------- reference definitions ------------------------ *)

\* the sum of the squares of the base-b digits of m, as a natural number
RECURSIVE SquareSum(_, _)
SquareSum(m, b) ==
    IF m = 0 THEN 0 ELSE (m % b) * (m % b) + SquareSum(m \div b, b)

\* m is a happy number: iterating SquareSum from m reaches 1 (and does not
\* come back to a number already seen first)
RECURSIVE ReachesOne(_, _, _)
ReachesOne(m, seen, b) ==
    IF m = 1 THEN TRUE
    ELSE IF m \in seen THEN FALSE
    ELSE ReachesOne(SquareSum(m, b), seen \cup {m}, b)

\* the happy numbers of base 10 among the representable numbers
HappyNumbers == {m \in 1..MaxNum : ReachesOne(m, {}, Base10)}

IsHappyNumber(m) == m \in HappyNumbers

\* thread t is inside an isHappy call that threadLoop made
ClassifiesPulled(t) ==
    /\ pc[t] \in {"isCached", "find", "read", "miss", "ret", "emplace"}
    /\ resume[t] = "loop"

\* no element of the sequence occurs twice
NoRepeat(s) == \A i, j \in 1..Len(s) : i # j => s[i] # s[j]

StrictlyIncreasing(s) == \A i \in 1..(Len(s) - 1) : s[i] < s[i + 1]

Range(s) == {s[i] : i \in 1..Len(s)}

\* the base-b digits of m, the least significant first
RECURSIVE DigitsOf(_, _)
DigitsOf(m, b) ==
    IF m = 0 THEN <<>> ELSE <<m % b>> \o DigitsOf(m \div b, b)

\* read from the most significant digit on, no digit of m is smaller than
\* the one before it
NonDescending(m, b) ==
    LET ds == DigitsOf(m, b)
    IN \A i \in 1..(Len(ds) - 1) : ds[i + 1] <= ds[i]

\* the numbers of base 10 with non-descending digits
SortedNumbers == {m \in 1..MaxNum : NonDescending(m, Base10)}

\* how often digit d occurs in m
RECURSIVE Occurrences(_, _, _)
Occurrences(m, d, b) ==
    IF m = 0 THEN 0
    ELSE (IF m % b = d THEN 1 ELSE 0) + Occurrences(m \div b, d, b)

\* the representable numbers whose base-10 digits are a permutation of m's
PermutationsOf ==
    [m \in 1..MaxNum |->
        {k \in 1..MaxNum :
            \A d \in 0..(Base10 - 1) :
                Occurrences(k, d, Base10) = Occurrences(m, d, Base10)}]

\* the threads startThreads detaches, and the worker loops it runs in all
DetachedCount ==
    IF numThreads > BoolToInt(attachToLast)
    THEN numThreads - BoolToInt(attachToLast) ELSE 0
LoopsRun == DetachedCount + BoolToInt(attachToLast)

\* startThreads has returned and every detached thread has ended
AllStopped ==
    /\ pc[0] = "returned"
    /\ \A t \in Threads \ {0} : pc[t] \in {"unborn", "done"}
    /\ spawned = DetachedCount

\* the keys a cache gets from classifying the numbers of P: P and the seeds,
\* closed under the digit square sum, which is not taken of 1 and 4
RECURSIVE ChainClosure(_)
ChainClosure(S) ==
    LET T == S \cup {SquareSum(m, Base10) : m \in S \ {1, 4}}
    IN IF T = S THEN S ELSE ChainClosure(T)
KeysOf(P) == ChainClosure(P \cup {1, 4})

\* the cache one worker leaves that classifies 1..s without skipping
RefCache(s) == [m \in KeysOf(1..s) |-> IsHappyNumber(m)]

\* thread t's recursion has used up its stack
Overflowed(t) ==
    crashed /\ pc[t] = "miss" /\ Len(stack[t]) >= MaxDepth

\* the cursor has wrapped around the largest representable number
CursorWrapped == nextNumber = 0 \/ 0 \in Range(handed)

(* -------------------------------- C1 ---------------------------------- *)

\* C1: in base 10, every call isHappy(m) with m >= 1 that has returned,
\* whatever cacheResults, skipPermutations and the cache were, returned TRUE
\* exactly when m is a happy number.
ClaimC1 ==
    base = Base10 =>
        \A r \in rets : r[1] >= 1 => (r[2] <=> IsHappyNumber(r[1]))

\* What holds instead: the same, as long as no sortDigits call has read a
\* stale byte and no read of the cache has raced with a write.
LemmaC1Clean == ~tainted => ClaimC1

\* the known values are returned in the clean runs
LemmaC1Known ==
    (~tainted /\ base = Base10) =>
        \A r \in rets :
            /\ r[1] \in {1, 7, 19} => r[2]
            /\ r[1] \in {2, 4, 89} => ~r[2]

(* -------------------------------- C2 ---------------------------------- *)

\* C2: a worker's loop calls isHappy only on a pulled number below stopAt.
ClaimC2 == \A t \in Threads : ClassifiesPulled(t) => n[t] < stopAt

(* -------------------------------- C3 ---------------------------------- *)

\* C3: nextNumber never decreases, and the numbers getNextNumber returns
\* are strictly increasing in lock order, so none is handed out twice.
ClaimC3 ==
    [][nextNumber' >= nextNumber /\ StrictlyIncreasing(handed')]_vars

\* What holds instead: the same until the cursor wraps around.
LemmaC3NoWrap ==
    [][~CursorWrapped' =>
        nextNumber' >= nextNumber /\ StrictlyIncreasing(handed')]_vars

(* -------------------------------- C4 ---------------------------------- *)

\* C4: with skipPermutations, for every bound B the numbers below B that
\* getNextNumber has returned once it returns one that is not below B are
\* exactly the numbers of [1, B) with non-descending digits, in strictly
\* increasing order: every number returned is one of them, and none below
\* a returned number is missed.
HandedSorted ==
    /\ StrictlyIncreasing(handed)
    /\ \A i \in 1..Len(handed) :
        {m \in SortedNumbers : m <= handed[i]} = {handed[j] : j \in 1..i}

ClaimC4 == (skipPermutations /\ base = Base10) => HandedSorted

\* What holds instead: the same until the cursor wraps around.
LemmaC4NoWrap ==
    (skipPermutations /\ base = Base10 /\ ~CursorWrapped) => HandedSorted

(* -------------------------------- C5 ---------------------------------- *)

\* C5: with caching the cache starts as {1: happy, 4: unhappy}, and in
\* every step every key of the cache stays a key and keeps its value.
ThmC5 ==
    /\ cacheResults => cache = SeedCache
    /\ [][\A k \in DOMAIN cache :
            k \in DOMAIN cache' /\ cache'[k] = cache[k]]_vars

\* a thread is about to record a number that is already a key, with the
\* other value
WitC5 ==
    \E t \in Threads :
        /\ pc[t] = "emplace"
        /\ Top(t) \in DOMAIN cache
        /\ cache[Top(t)] # happy[t]

(* -------------------------------- C6 ---------------------------------- *)

\* C6: with caching, once isHappy(m) has returned v, m is a key of the
\* cache with the value v.
ClaimC6 ==
    cacheResults =>
        \A r \in rets : r[1] \in DOMAIN cache /\ cache[r[1]] = r[2]

\* What holds instead: the same while at most one thread runs.
LemmaC6OneThread == LoopsRun <= 1 => ClaimC6

(* -------------------------------- C7 ---------------------------------- *)

HandedAllBelow == \A i \in 1..Len(handed) : handed[i] = i

\* the milestones m, 2m, ..., k*m
Boundaries(k, m) == [j \in 1..k |-> j * m]

\* C8: with the interval M, once the cursor has handed out exactly the
\* numbers of [1, B), the milestones announced are M, 2M, ... up to
\* floor((B-1)/M) of them.
ClaimC8 ==
    \A m \in milestoneInc :
        HandedAllBelow =>
            milestones = Boundaries(Len(handed) \div m, m)

\* C8 as amended: ..., for B >= 2 and B - 2 + M representable, the
\* milestones announced are M, 2M, ... up to floor((B-2)/M) of them.
ThmC8 ==
    \A m \in milestoneInc :
        (/\ HandedAllBelow
         /\ Len(handed) >= 1
         /\ Len(handed) - 1 + m <= MaxNum) =>
            milestones = Boundaries((Len(handed) - 1) \div m, m)

\* the cursor has handed out 1..2M and announced M only
WitC8 ==
    \E m \in milestoneInc :
        /\ HandedAllBelow
        /\ Len(handed) = 2 * m
        /\ milestones = <<m>>

(* -------------------------------- C9 ---------------------------------- *)

\* C9: in base 10 a call isHappy(m) with m >= 1 ends: the chain of numbers
\* it recurses through visits no number twice and does not use up the stack.
ClaimC9 ==
    base = Base10 =>
        \A t \in Threads :
            (stack[t] # <<>> /\ stack[t][1] >= 1) =>
                NoRepeat(stack[t]) /\ ~Overflowed(t)

\* What holds instead: the same as long as no sortDigits call has read a
\* stale byte.
LemmaC9Clean == ~tainted => ClaimC9

(* -------------------------------- C10 --------------------------------- *)

\* calls of isHappy on numbers with the same digits, the same number
\* included, have returned the same value
SameDigitsSameValue ==
    \A r \in rets :
        r[1] >= 1 =>
            \A k \in PermutationsOf[r[1]] : <<k, ~r[2]>> \notin rets

\* C10: calls of isHappy on two different numbers with the same digits in
\* another order return the same value.
ClaimC10 ==
    base = Base10 =>
        \A r \in rets :
            r[1] >= 1 =>
                \A k \in PermutationsOf[r[1]] \ {r[1]} :
                    <<k, ~r[2]>> \notin rets

\* What holds instead: the same, and for two calls on one number too, as
\* long as no sortDigits call has read a stale byte and no read of the
\* cache has raced with a write.
LemmaC10Clean == (~tainted /\ base = Base10) => SameDigitsSameValue

(* -------------------------------- C11 --------------------------------- *)

\* thread t is inside isHappy
InIsHappy(t) ==
    pc[t] \in {"isCached", "find", "read", "miss", "ret", "emplace"}

\* main's call of startThreads has returned
StartThreadsReturned ==
    pc[0] = "returned" \/ (InIsHappy(0) /\ resume[0] = "returned")

\* the numbers below stopAt that the cursor hands out
BelowStop ==
    {m \in 1..(stopAt - 1) : skipPermutations => areDigitsSorted(m, base)}

SortDigitsCalls ==
    IF skipPermutations
    THEN UNION {{<<sumOfDigitSquares(stack[t][j], base), stack[t][j + 1]>> :
                    j \in 1..(Len(stack[t]) - 1)} : t \in Threads}
    ELSE {}

SameSquareSumSorted(arg, out) ==
    /\ SquareSum(out, base) = SquareSum(arg, base)
    /\ areDigitsSorted(out, base)

\* C12: sortDigits(n) has the same sum of squared digits as n, and its
\* digits are sorted.
ClaimC12 == \A c \in SortDigitsCalls : SameSquareSumSorted(c[1], c[2])

\* What holds instead: the same as long as no sortDigits call has read a
\* stale byte.
LemmaC12Clean == ~tainted => ClaimC12

(* -------------------------------- C13 --------------------------------- *)

\* C13: no thread reads the map (the cache[n] that isHappy returns) while
\* another thread is inside newResult's critical section.
ClaimC13 == \A t \in Threads : pc[t] = "read" => ~WriterInside(t)

\* What holds instead: the lookup of isCached and the insert of newResult
\* are made by the one holder of the lock.
LemmaC13Locked ==
    \A t \in Threads : pc[t] \in {"find", "emplace"} <=> t \in cacheLock

(* -------------------------------- C14 --------------------------------- *)

\* C14: the cursor never hands out 0, and no worker calls isHappy(0).
ClaimC14 ==
    /\ \A i \in 1..Len(handed) : handed[i] # 0
    /\ \A t \in Threads : ClassifiesPulled(t) => stack[t][1] # 0

\* What holds instead: the same for one worker that skips nothing.
LemmaC14NoSkip == (~skipPermutations /\ LoopsRun <= 1) => ClaimC14

(* -------------------------------- C15 --------------------------------- *)

\* the number getNextNumber returned last is not beyond the milestone due
\* next
CaughtUp ==
    \A m \in milestoneInc :
        handed # <<>> => handed[Len(handed)] <= lastMilestone + m

\* C15: with skipPermutations and a milestone interval M, after every
\* call of getNextNumber that returned i, i <= lastMilestone + M.
ClaimC15 == skipPermutations => CaughtUp

\* What holds instead: the same without skipPermutations, as long as the
\* number returned plus M is representable.
LemmaC15NoSkip ==
    ~skipPermutations =>
        \A m \in milestoneInc :
            (handed # <<>> /\ handed[Len(handed)] + m <= MaxNum) =>
                handed[Len(handed)] <= lastMilestone + m

(* -------------------------------- C16 --------------------------------- *)

\* C16: in every base, also when no sortDigits call has read a stale byte,
\* the chain a call isHappy(m) with m >= 1 recurses through visits no
\* number twice and does not use up the stack.
ClaimC16 ==
    ~tainted =>
        \A t \in Threads :
            (stack[t] # <<>> /\ stack[t][1] >= 1) =>
                NoRepeat(stack[t]) /\ ~Overflowed(t)

\* What holds instead: the same in the bases 2, 4 and 10.
LemmaC16Bases == base \in {2, 4, Base10} => ClaimC16

(* -------------------------------- C17 --------------------------------- *)

SameDigits(arg, out) ==
    \A d \in 0..(base - 1) :
        Occurrences(out, d, base) = Occurrences(arg, d, base)

SameNonZeroDigits(arg, out) ==
    /\ Occurrences(out, 0, base) = 0
    /\ \A d \in 1..(base - 1) :
        Occurrences(out, d, base) = Occurrences(arg, d, base)

\* C17: also when no sortDigits call has read a stale byte, every digit,
\* the digit 0 included, occurs in sortDigits(n) as often as in n.
ClaimC17 == ~tainted => \A c \in SortDigitsCalls : SameDigits(c[1], c[2])

\* What holds instead: as long as no sortDigits call has read a stale
\* byte, sortDigits(n) has the digits of n other than 0, and no digit 0.
LemmaC17NonZero ==
    ~tainted => \A c \in SortDigitsCalls : SameNonZeroDigits(c[1], c[2])

(* -------------------------------- C19 --------------------------------- *)

\* 1 while main runs threadLoop itself, else 0
MainInLoop ==
    BoolToInt(\/ pc[0] \in {"loop", "gnn", "scan"}
              \/ InIsHappy(0) /\ resume[0] = "loop")

\* C19: the worker loops startThreads has started, detached and on the
\* calling thread, are numThreads at most (and numThreads once it is
\* through), and with numThreads = 0 nothing is pulled from the cursor.
ClaimC19 ==
    /\ numThreads >= 1 => spawned + MainInLoop <= numThreads
    /\ numThreads = 0 => handed = <<>>

\* What holds instead: the same for numThreads >= 1, and then
\* startThreads has detached numThreads threads, less one with
\* attachToLast, when it runs the last loop or returns.
LemmaC19Positive ==
    numThreads >= 1 =>
        /\ ClaimC19
        /\ (MainInLoop = 1 \/ StartThreadsReturned) =>
            spawned + BoolToInt(attachToLast) = numThreads

(* -------------------------------- C20 --------------------------------- *)

\* C20: with caching, for every key of the cache other than 1 and 4 the
\* iterate of the key (its digit square sum, sorted by sortDigits with
\* skipPermutations) is a key too.
ClaimC20 ==
    cacheResults =>
        \A k \in DOMAIN cache \ {1, 4} :
            ChildNumber(k, ZeroBytes(base)) \in DOMAIN cache

\* What holds instead: the same as long as no sortDigits call has read a
\* stale byte.
LemmaC20Clean == ~tainted => ClaimC20

(* -------------------------------- C18 --------------------------------- *)

\* C18: in base 10 and with stopAt below the largest representable value,
\* under fair scheduling, startThreads returns and every worker stops in
\* the end, in the runs at least in which no sortDigits call reads a stale
\* byte and no read of the cache races with a write.
ClaimC18 ==
    (base = Base10 /\ stopAt < MaxNum) => <>(AllStopped \/ tainted)

\* What holds instead: under fair scheduling every worker stops in the
\* end or the process dies; no thread holds both locks, and no lock has
\* two holders.
LemmaC18Live == <>(AllStopped \/ crashed)

LemmaC18Locks ==
    /\ Cardinality(cacheLock) <= 1
    /\ Cardinality(nextNumberLock) <= 1
    /\ cacheLock \cap nextNumberLock = {}

====
